---------------------------- MODULE Spec2Model ----------------------------
(***************************************************************************)
(* A model of othello.c (Tom Weatherhead, 1992): the board, the effect     *)
(* calculator compute_effect(), the recursive search best_move() with its  *)
(* one-level alpha-beta cutoff, the application heap of move records       *)
(* (enqueue/dequeue) and the turn loop of main().                          *)
(*                                                                         *)
(* best_move() is modelled as a stack machine: one frame per active call,  *)
(* one step per trial move.  compute_effect() is an operator that returns  *)
(* the board and counts it leaves behind together with its results.        *)
(***************************************************************************)
EXTENDS Integers, Sequences, FiniteSets, TLC

(***************************************************************************)
(* Program constants (othello.c lines 27-40).                              *)
(***************************************************************************)
BOARD_SIZE == 8

NUM_VECTORS == 8

\* MAX_CHANGES with room for three full lines in the place of four.
MAX_CHANGES_ThreeLines == 3 * (BOARD_SIZE - 3)

MAX_CHANGES == 4 * (BOARD_SIZE - 3)

BOARD_AREA == BOARD_SIZE * BOARD_SIZE

\* INIT_MAX_EFFECT with the factor 0 in the place of -9.
INIT_MAX_EFFECT_Zero == 0 * BOARD_AREA

\* The macro is unparenthesised, -9*BOARD_AREA expands to -9*(8*8).
INIT_MAX_EFFECT == (-9) * BOARD_AREA

idx_weight(x) == IF x = 0 \/ x = BOARD_SIZE - 1 THEN BOARD_SIZE ELSE 1

\* h_func with the two weights added.
h_func_Sum(r, c) == idx_weight(r) + idx_weight(c)

h_func(r, c) == idx_weight(r) * idx_weight(c)

\* static vector_type vector[NUM_VECTORS]
vector ==
  << <<-1, -1>>, <<-1, 0>>, <<-1, 1>>, <<0, -1>>,
     <<0, 1>>, <<1, -1>>, <<1, 0>>, <<1, 1>> >>

Idx == 0 .. (BOARD_SIZE - 1)

Markers == {"X", "O"}

\* player->opponent: x_data and o_data point at each other.
Opp(m) == IF m = "X" THEN "O" ELSE "X"

(***************************************************************************)
(* compute_effect(), lines 163-221.  A board is board[row][col]; a pointer *)
(* into the board (an element of changes[]) is the pair <<row, col>>.      *)
(***************************************************************************)

\* row2 and col2 are unsigned: stepping below 0 wraps to a value >= BOARD_SIZE.
OffBoard(x) == x < 0 \/ x >= BOARD_SIZE

\* *(line_change[j]) = player->marker, for j = 1..len
RECURSIVE PaintCells(_, _, _, _)
PaintCells(b, cells, len, marker) ==
  IF len = 0 THEN b
  ELSE PaintCells([b EXCEPT ![cells[len][1]][cells[len][2]] = marker],
                  cells, len - 1, marker)

\* WalkLine with the run kept when the walk leaves the board.
RECURSIVE WalkLine_EdgeCaptures(_, _, _, _, _)
WalkLine_EdgeCaptures(b, marker, drow, dcol, w) ==
  LET row2 == w.row2 + drow
      col2 == w.col2 + dcol
  IN IF OffBoard(row2) \/ OffBoard(col2)
       THEN w
     ELSE IF b[row2][col2] = " "
       THEN [w EXCEPT !.len = 0]
     ELSE IF b[row2][col2] = marker
       THEN w
     ELSE WalkLine_EdgeCaptures(b, marker, drow, dcol,
            [row2 |-> row2, col2 |-> col2,
             len |-> w.len + 1,
             line_heur_total |-> w.line_heur_total + h_func(row2, col2),
             line_change |-> Append(w.line_change, <<row2, col2>>),
             ok |-> w.ok /\ w.len < BOARD_SIZE - 1])

\* The inner for(;;) of one direction, lines 180-194.  w carries row2, col2,
\* len, line_heur_total, line_change and whether assert(len < BOARD_SIZE-1) held.
RECURSIVE WalkLine(_, _, _, _, _)
WalkLine(b, marker, drow, dcol, w) ==
  LET row2 == w.row2 + drow
      col2 == w.col2 + dcol
  IN IF OffBoard(row2) \/ OffBoard(col2) \/ b[row2][col2] = " "
       THEN [w EXCEPT !.len = 0]
     ELSE IF b[row2][col2] = marker
       THEN w
     ELSE WalkLine(b, marker, drow, dcol,
            [row2 |-> row2, col2 |-> col2,
             len |-> w.len + 1,
             line_heur_total |-> w.line_heur_total + h_func(row2, col2),
             line_change |-> Append(w.line_change, <<row2, col2>>),
             ok |-> w.ok /\ w.len < BOARD_SIZE - 1])

\* The loop over the NUM_VECTORS directions, lines 173-207.  st carries the
\* board, changes[], num_changed, heur_total and the state of the assertions;
\* no direction is walked after an assertion has failed.
RECURSIVE DirLoop(_, _, _, _, _)
DirLoop(i, st, row, col, marker) ==
  IF i > NUM_VECTORS \/ ~st.ok THEN st
  ELSE
    LET w == WalkLine(st.board, marker, vector[i][1], vector[i][2],
                      [row2 |-> row, col2 |-> col, len |-> 0,
                       line_heur_total |-> 0, line_change |-> << >>,
                       ok |-> TRUE])
        st2 == IF w.len > 0
                 THEN [board |-> PaintCells(st.board, w.line_change, w.len, marker),
                       changes |-> st.changes \o SubSeq(w.line_change, 1, w.len),
                       num_changed |-> st.num_changed + w.len,
                       heur_total |-> st.heur_total + w.line_heur_total,
                       ok |-> st.ok /\ w.ok
                                /\ st.num_changed + w.len <= MAX_CHANGES]
                 ELSE [st EXCEPT !.ok = st.ok /\ w.ok]
    IN DirLoop(i + 1, st2, row, col, marker)

\* PlaceMarker with the mover's count raised by the flips only.
PlaceMarker_NoPlusOne(st, count, row, col, marker) ==
  IF st.num_changed > 0
    THEN [board |-> [st.board EXCEPT ![row][col] = marker],
          count |-> [count EXCEPT ![marker] = @ + st.num_changed,
                                  ![Opp(marker)] = @ - st.num_changed],
          changes |-> st.changes,
          num_changed |-> st.num_changed,
          heur_total |-> st.heur_total + h_func(row, col),
          ok |-> st.ok]
    ELSE [board |-> st.board, count |-> count, changes |-> st.changes,
          num_changed |-> st.num_changed, heur_total |-> st.heur_total,
          ok |-> st.ok]

\* PlaceMarker with the marker placed whether or not something was flipped.
PlaceMarker_Always(st, count, row, col, marker) ==
  [board |-> [st.board EXCEPT ![row][col] = marker],
   count |-> IF st.num_changed > 0
               THEN [count EXCEPT ![marker] = @ + st.num_changed + 1,
                                  ![Opp(marker)] = @ - st.num_changed]
               ELSE count,
   changes |-> st.changes,
   num_changed |-> st.num_changed,
   heur_total |-> IF st.num_changed > 0
                    THEN st.heur_total + h_func(row, col)
                    ELSE st.heur_total,
   ok |-> st.ok]

\* Lines 209-214: the marker is placed and the counts move only when
\* something was flipped.
PlaceMarker(st, count, row, col, marker) ==
  IF st.num_changed > 0
    THEN [board |-> [st.board EXCEPT ![row][col] = marker],
          count |-> [count EXCEPT ![marker] = @ + st.num_changed + 1,
                                  ![Opp(marker)] = @ - st.num_changed],
          changes |-> st.changes,
          num_changed |-> st.num_changed,
          heur_total |-> st.heur_total + h_func(row, col),
          ok |-> st.ok]
    ELSE [board |-> st.board, count |-> count, changes |-> st.changes,
          num_changed |-> st.num_changed, heur_total |-> st.heur_total,
          ok |-> st.ok]

\* compute_effect(row, col, player, changes, &num_changed) on board b with the
\* two counts: what it returns (heur_total), what it stores (changes,
\* num_changed) and what it leaves in the globals (board, count).
compute_effect(b, count, row, col, marker) ==
  PlaceMarker(DirLoop(1, [board |-> b, changes |-> << >>, num_changed |-> 0,
                          heur_total |-> 0, ok |-> TRUE], row, col, marker),
              count, row, col, marker)

(***************************************************************************)
(* The undo step of best_move(), lines 296-304.                            *)
(***************************************************************************)
\* UndoMove with the last changed cell left as it is.
UndoMove_OffByOne(b, count, i, j, marker, changes, num_changes) ==
  [board |-> PaintCells([b EXCEPT ![i][j] = " "], changes, num_changes - 1,
                        Opp(marker)),
   count |-> [count EXCEPT ![marker] = @ - (num_changes + 1),
                           ![Opp(marker)] = @ + num_changes]]

\* UndoMove with the mover's count lowered by the flips only.
UndoMove_CountOff(b, count, i, j, marker, changes, num_changes) ==
  [board |-> PaintCells([b EXCEPT ![i][j] = " "], changes, num_changes,
                        Opp(marker)),
   count |-> [count EXCEPT ![marker] = @ - num_changes,
                           ![Opp(marker)] = @ + num_changes]]

UndoMove(b, count, i, j, marker, changes, num_changes) ==
  [board |-> PaintCells([b EXCEPT ![i][j] = " "], changes, num_changes,
                        Opp(marker)),
   count |-> [count EXCEPT ![marker] = @ - (num_changes + 1),
                           ![Opp(marker)] = @ + num_changes]]

(***************************************************************************)
(* The application heap of move records, lines 91-122.  A record address   *)
(* is an index of mem; a coord_type** ("tail") is kept as the address of   *)
(* the record whose next field it points at.                               *)
(***************************************************************************)
NULL == 0

\* enqueue(ptr) on the heap h = [mem, local_heap]
enqueue(h, ptr) ==
  IF ptr = NULL THEN h
  ELSE [mem |-> [h.mem EXCEPT ![h.mem[ptr].tail].next = h.local_heap],
        local_heap |-> ptr]

\* dequeue(): the heap left behind and the record returned; malloc() hands
\* out the next unused address, its fields not yet written.
dequeue(h) ==
  IF h.local_heap = NULL
    THEN [heap |-> [mem |-> Append(h.mem, [r |-> 0, c |-> 0, next |-> NULL,
                                           tail |-> NULL]),
                    local_heap |-> NULL],
          rtn |-> Len(h.mem) + 1]
    ELSE [heap |-> [mem |-> h.mem, local_heap |-> h.mem[h.local_heap].next],
          rtn |-> h.local_heap]

\* for( k = from; k <= Len(ptrs); k++ ) enqueue( ptrs[k] ), skipping index skip
RECURSIVE EnqueueAll(_, _, _, _)
EnqueueAll(h, ptrs, from, skip) ==
  IF from > Len(ptrs) THEN h
  ELSE EnqueueAll(IF from = skip THEN h ELSE enqueue(h, ptrs[from]),
                  ptrs, from + 1, skip)

\* rand(): a linear congruential generator over the generator state; the
\* value returned is the new state.
RandNext(s) == (5 * s + 3) % 16

(***************************************************************************)
(* best_move(), lines 227-333, as one frame per active call.               *)
(***************************************************************************)

\* Entry to best_move(): the locals after their initialisers, lines 231-235.
\* entry remembers the board and counts the call started from, pruned
\* whether a call made from this one, directly or not, was cut off, and got
\* the records dequeue() has handed out during the call and the calls made
\* from it.
NewFrame(marker, ply, max_ply, prev_move_val, best_sibling, b, cnt) ==
  [player |-> marker, ply |-> ply, max_ply |-> max_ply,
   prev_move_val |-> prev_move_val, best_sibling |-> best_sibling,
   done |-> FALSE, effect |-> 0, max_effect |-> INIT_MAX_EFFECT,
   num_changes |-> 0, changes |-> << >>, i |-> 0, j |-> 0,
   best_moves |-> << >>, chain_ptr |-> NULL, at |-> "scan",
   entry |-> [board |-> b, count |-> cnt], pruned |-> FALSE, got |-> {}]

\* Lines 237-246: advance (i, j) in row-major order over occupied cells and
\* cells where compute_effect() changes nothing, up to the first cell where
\* it changes something, or to the end of the board.  Row i is scanned from
\* column j, the rows after it from column 0.
RECURSIVE ScanFrom(_, _, _, _, _)
ScanFrom(b, cnt, marker, i, j) ==
  IF i >= BOARD_SIZE
    THEN [found |-> FALSE, ok |-> TRUE, i |-> i, j |-> j, board |-> b,
          count |-> cnt, changes |-> << >>, num_changes |-> 0, effect |-> 0]
  ELSE LET Stops(c) ==
             /\ b[i][c] = " "
             /\ \E ce \in {compute_effect(b, cnt, i, c, marker)} :
                  ~(ce.ok /\ ce.num_changed = 0)
           stops == {c \in j .. (BOARD_SIZE - 1) : Stops(c)}
       IN IF stops = {}
            THEN ScanFrom(b, cnt, marker, i + 1, 0)
            ELSE LET c == CHOOSE x \in stops : \A y \in stops : x <= y
                     ce == compute_effect(b, cnt, i, c, marker)
                 IN [found |-> ce.ok, ok |-> ce.ok, i |-> i, j |-> c,
                     board |-> ce.board, count |-> ce.count,
                     changes |-> ce.changes, num_changes |-> ce.num_changed,
                     effect |-> ce.heur_total]

\* Prune without the test of the ply.
Prune_AtRoot(f, effect) ==
  f.prev_move_val - effect < f.best_sibling

\* Line 269: the alpha-beta cutoff test.
Prune(f, effect) ==
  f.ply > 1 /\ f.prev_move_val - effect < f.best_sibling

\* Consider with the loops left at once on a cutoff: the move is collected
\* but not undone.
Consider_CutoffSkipsUndo(f, effect, chain_ptr, h, b, cnt) ==
  LET better == effect > f.max_effect
      h1 == IF better THEN EnqueueAll(h, f.best_moves, 1, 0) ELSE h
      done1 == better /\ Prune(f, effect)
      max1 == IF better THEN effect ELSE f.max_effect
      bm1 == IF better THEN << >> ELSE f.best_moves
      d == dequeue(h1)
      rec == [r |-> f.i, c |-> f.j, next |-> chain_ptr,
              tail |-> IF chain_ptr # NULL THEN d.heap.mem[chain_ptr].tail
                       ELSE d.rtn]
      h2 == IF effect = max1
              THEN [d.heap EXCEPT !.mem[d.rtn] = rec]
              ELSE enqueue(h1, chain_ptr)
      bm2 == IF effect = max1 THEN Append(bm1, d.rtn) ELSE bm1
      u == IF done1 THEN [board |-> b, count |-> cnt]
           ELSE UndoMove(b, cnt, f.i, f.j, f.player, f.changes,
                         f.num_changes)
  IN [frame |-> [f EXCEPT !.effect = effect, !.chain_ptr = chain_ptr,
                          !.done = done1, !.max_effect = max1,
                          !.best_moves = bm2, !.j = f.j + 1, !.at = "scan"],
      heap |-> h2, board |-> u.board, count |-> u.count]

\* Consider with the chain of the trial move before linked to the record
\* instead of the chain the recursive call has just stored.
Consider_StaleChain(f, effect, chain_ptr, h, b, cnt) ==
  LET better == effect > f.max_effect
      h1 == IF better THEN EnqueueAll(h, f.best_moves, 1, 0) ELSE h
      done1 == better /\ Prune(f, effect)
      max1 == IF better THEN effect ELSE f.max_effect
      bm1 == IF better THEN << >> ELSE f.best_moves
      d == dequeue(h1)
      rec == [r |-> f.i, c |-> f.j, next |-> f.chain_ptr,
              tail |-> IF f.chain_ptr # NULL
                         THEN d.heap.mem[f.chain_ptr].tail
                         ELSE d.rtn]
      h2 == IF effect = max1
              THEN [d.heap EXCEPT !.mem[d.rtn] = rec]
              ELSE enqueue(h1, chain_ptr)
      bm2 == IF effect = max1 THEN Append(bm1, d.rtn) ELSE bm1
      u == UndoMove(b, cnt, f.i, f.j, f.player, f.changes, f.num_changes)
  IN [frame |-> [f EXCEPT !.effect = effect, !.chain_ptr = chain_ptr,
                          !.done = done1, !.max_effect = max1,
                          !.best_moves = bm2, !.j = f.j + 1, !.at = "scan"],
      heap |-> h2, board |-> u.board, count |-> u.count]

\* Consider with the earlier candidates kept when a better move is found.
Consider_KeepsOldBest(f, effect, chain_ptr, h, b, cnt) ==
  LET better == effect > f.max_effect
      h1 == IF better THEN EnqueueAll(h, f.best_moves, 1, 0) ELSE h
      done1 == better /\ Prune(f, effect)
      max1 == IF better THEN effect ELSE f.max_effect
      d == dequeue(h1)
      rec == [r |-> f.i, c |-> f.j, next |-> chain_ptr,
              tail |-> IF chain_ptr # NULL THEN d.heap.mem[chain_ptr].tail
                       ELSE d.rtn]
      h2 == IF effect = max1
              THEN [d.heap EXCEPT !.mem[d.rtn] = rec]
              ELSE enqueue(h1, chain_ptr)
      bm2 == IF effect = max1 THEN Append(f.best_moves, d.rtn)
             ELSE f.best_moves
      u == UndoMove(b, cnt, f.i, f.j, f.player, f.changes, f.num_changes)
  IN [frame |-> [f EXCEPT !.effect = effect, !.chain_ptr = chain_ptr,
                          !.done = done1, !.max_effect = max1,
                          !.best_moves = bm2, !.j = f.j + 1, !.at = "scan"],
      heap |-> h2, board |-> u.board, count |-> u.count]

\* Lines 263-305 for the trial move at (f.i, f.j) with net score effect and
\* reply chain chain_ptr: compare, collect or discard, undo, step the loops.
Consider(f, effect, chain_ptr, h, b, cnt) ==
  LET better == effect > f.max_effect
      h1 == IF better THEN EnqueueAll(h, f.best_moves, 1, 0) ELSE h
      done1 == better /\ Prune(f, effect)
      max1 == IF better THEN effect ELSE f.max_effect
      bm1 == IF better THEN << >> ELSE f.best_moves
      d == dequeue(h1)
      rec == [r |-> f.i, c |-> f.j, next |-> chain_ptr,
              tail |-> IF chain_ptr # NULL THEN d.heap.mem[chain_ptr].tail
                       ELSE d.rtn]
      h2 == IF effect = max1
              THEN [d.heap EXCEPT !.mem[d.rtn] = rec]
              ELSE enqueue(h1, chain_ptr)
      bm2 == IF effect = max1 THEN Append(bm1, d.rtn) ELSE bm1
      u == UndoMove(b, cnt, f.i, f.j, f.player, f.changes, f.num_changes)
  IN [frame |-> [f EXCEPT !.effect = effect, !.chain_ptr = chain_ptr,
                          !.done = done1, !.max_effect = max1,
                          !.best_moves = bm2, !.j = f.j + 1, !.at = "scan"],
      heap |-> h2, board |-> u.board, count |-> u.count]

\* Conclude with the candidates that were not chosen left where they are.
Conclude_KeepsOthers(f, h, s) ==
  IF Len(f.best_moves) = 0
    THEN [val |-> 0, chain |-> NULL, heap |-> h, seed |-> s]
    ELSE LET s1 == RandNext(s)
             chosen_move == s1 % Len(f.best_moves)
         IN [val |-> f.max_effect, chain |-> f.best_moves[chosen_move + 1],
             heap |-> h, seed |-> s1]

\* Conclude with a best score of 0 or less taken for no move at all.
Conclude_NonPositiveIsNone(f, h, s) ==
  IF Len(f.best_moves) = 0 \/ f.max_effect <= 0
    THEN [val |-> 0, chain |-> NULL,
          heap |-> EnqueueAll(h, f.best_moves, 1, 0), seed |-> s]
    ELSE LET s1 == RandNext(s)
             chosen_move == s1 % Len(f.best_moves)
         IN [val |-> f.max_effect, chain |-> f.best_moves[chosen_move + 1],
             heap |-> EnqueueAll(h, f.best_moves, 1, chosen_move + 1),
             seed |-> s1]

\* Lines 308-332: the value returned and the chain stored in *rtn_chain
\* (every call of the program passes a rtn_chain), with the generator state
\* and the heap left behind.
Conclude(f, h, s) ==
  IF Len(f.best_moves) = 0
    THEN [val |-> 0, chain |-> NULL, heap |-> h, seed |-> s]
    ELSE LET s1 == RandNext(s)
             chosen_move == s1 % Len(f.best_moves)
         IN [val |-> f.max_effect, chain |-> f.best_moves[chosen_move + 1],
             heap |-> EnqueueAll(h, f.best_moves, 1, chosen_move + 1),
             seed |-> s1]

(***************************************************************************)
(* main(), lines 336-481.                                                  *)
(***************************************************************************)

\* Lines 365-372: the opening position.
InitBoard ==
  [r \in Idx |-> [c \in Idx |->
     IF (r = 3 /\ c = 3) \/ (r = 4 /\ c = 4) THEN "X"
     ELSE IF (r = 3 /\ c = 4) \/ (r = 4 /\ c = 3) THEN "O"
     ELSE " "]]

InitCount == [m \in Markers |-> 2]

\* player_type_type
PlayerTypes == {"PT_COMP", "PT_HUMAN"}

\* Lines of input a human types at the "X: " prompt: a move "row,col" or H.
\* Q may be typed at any prompt and is not part of a script.
Mv(r, c) == [cmd |-> "move", row |-> r, col |-> c]

Help == [cmd |-> "help", row |-> 0, col |-> 0]

RECURSIVE Moves(_)
Moves(pairs) ==
  IF pairs = << >> THEN << >>
  ELSE <<Mv(Head(pairs)[1], Head(pairs)[2])>> \o Moves(Tail(pairs))

\* Bounds of the model.
MaxPly == 2

NumSeeds == 2

MaxCompMoves == 2

\* Lines refused at the prompt of the opening position: coordinates off the
\* board, an occupied cell, a cell where nothing is flipped.
Refused == <<Mv(8, 0), Mv(0, 8), Mv(3, 3), Mv(0, 0)>>

\* The script with the given lines typed after its first k lines.
TypedAfter(script, k, lines) ==
  SubSeq(script, 1, k) \o lines \o SubSeq(script, k + 1, Len(script))

\* A nine-move game that ends with no O on the board.
WipeoutGame ==
  Moves(<< <<5, 3>>, <<5, 4>>, <<3, 5>>, <<3, 2>>, <<3, 1>>, <<4, 5>>,
           <<5, 5>>, <<6, 3>>, <<7, 3>> >>)

\* After eight moves X cannot move and O can; three more moves follow.
PassGame ==
  Moves(<< <<4, 2>>, <<5, 2>>, <<2, 4>>, <<4, 1>>, <<4, 0>>, <<3, 0>>,
           <<6, 2>>, <<5, 0>>, <<4, 5>>, <<3, 2>>, <<1, 4>> >>)

\* After nineteen moves neither player can move: O is left with one marker.
DeadlockGame ==
  Moves(<< <<4, 2>>, <<3, 2>>, <<2, 2>>, <<5, 4>>, <<2, 5>>, <<2, 4>>,
           <<1, 5>>, <<1, 1>>, <<6, 4>>, <<3, 1>>, <<3, 0>>, <<4, 0>>,
           <<2, 0>>, <<1, 0>>, <<0, 0>>, <<0, 2>>, <<5, 0>>, <<5, 5>>,
           <<6, 6>> >>)

\* A game of sixty moves that fills the board; O cannot move before the last.
FullGame ==
  Moves(<< <<3, 5>>, <<4, 5>>, <<5, 2>>, <<2, 4>>, <<1, 3>>, <<6, 1>>,
           <<5, 4>>, <<6, 5>>, <<6, 4>>, <<2, 5>>, <<4, 2>>, <<1, 4>>,
           <<6, 6>>, <<0, 2>>, <<6, 2>>, <<5, 3>>, <<7, 0>>, <<2, 2>>,
           <<6, 3>>, <<7, 1>>, <<4, 6>>, <<5, 5>>, <<1, 1>>, <<6, 7>>,
           <<0, 4>>, <<0, 0>>, <<1, 6>>, <<5, 7>>, <<2, 3>>, <<4, 1>>,
           <<5, 1>>, <<3, 2>>, <<2, 1>>, <<5, 0>>, <<6, 0>>, <<4, 0>>,
           <<7, 3>>, <<1, 2>>, <<3, 1>>, <<1, 0>>, <<7, 5>>, <<1, 5>>,
           <<3, 7>>, <<3, 6>>, <<0, 1>>, <<7, 2>>, <<0, 5>>, <<1, 7>>,
           <<2, 7>>, <<2, 0>>, <<7, 4>>, <<3, 0>>, <<7, 7>>, <<5, 6>>,
           <<4, 7>>, <<7, 6>>, <<0, 6>>, <<2, 6>>, <<0, 7>>, <<0, 3>> >>)

\* A sixty-move game with long lines: on its way a move would capture six
\* cells in one direction, a walk passes over seven cells to the edge, and
\* a move would capture eighteen cells in all.
LongRunGame ==
  Moves(<< <<2, 4>>, <<2, 5>>, <<3, 5>>, <<2, 3>>, <<1, 5>>, <<5, 5>>,
           <<5, 3>>, <<4, 6>>, <<4, 5>>, <<5, 6>>, <<4, 2>>, <<3, 6>>,
           <<2, 2>>, <<5, 2>>, <<3, 7>>, <<3, 2>>, <<5, 1>>, <<2, 6>>,
           <<6, 4>>, <<1, 3>>, <<1, 2>>, <<6, 5>>, <<7, 5>>, <<3, 1>>,
           <<1, 1>>, <<1, 0>>, <<0, 2>>, <<1, 4>>, <<0, 0>>, <<0, 4>>,
           <<4, 0>>, <<6, 3>>, <<6, 7>>, <<4, 1>>, <<0, 3>>, <<4, 7>>,
           <<6, 2>>, <<6, 0>>, <<3, 0>>, <<0, 1>>, <<5, 4>>, <<7, 4>>,
           <<0, 5>>, <<2, 1>>, <<7, 3>>, <<6, 6>>, <<5, 7>>, <<7, 1>>,
           <<7, 2>>, <<1, 6>>, <<2, 7>>, <<1, 7>>, <<5, 0>>, <<7, 6>>,
           <<7, 7>>, <<6, 1>>, <<0, 7>>, <<2, 0>>, <<7, 0>>, <<0, 6>> >>)

Games == {WipeoutGame, PassGame, DeadlockGame, FullGame, LongRunGame}

\* What two humans type: each game with H typed at some prompts, and the
\* refused lines typed first in one of them.
Scripts ==
  { Refused \o TypedAfter(TypedAfter(WipeoutGame, 6, <<Help>>), 0, <<Help>>),
    TypedAfter(TypedAfter(PassGame, 9, <<Help>>), 7, <<Help>>),
    TypedAfter(TypedAfter(DeadlockGame, 18, <<Help>>), 12, <<Help>>),
    TypedAfter(TypedAfter(TypedAfter(FullGame, 59, <<Help>>), 58, <<Help>>),
               30, <<Help>>) }

AllHuman == [m \in Markers |-> "PT_HUMAN"]

\* The answers to the start-up questions and the lines typed afterwards: two
\* humans type one of the scripts; a human who plays the computer types H
\* and then the lines of the nine-move game; nothing is typed when the
\* computer plays itself.
Setups ==
  [ptype : {AllHuman}, input : Scripts]
    \cup [ptype : {t \in [Markers -> PlayerTypes] :
                     \E m \in Markers : t[m] # t[Opp(m)]},
          input : {<<Help>> \o WipeoutGame}]
    \cup [ptype : {[m \in Markers |-> "PT_COMP"]}, input : {<< >>}]

VARIABLES
  board,        \* char board[BOARD_SIZE][BOARD_SIZE + 1]
  count,        \* x_data.count, o_data.count
  ptype,        \* x_data.type, o_data.type
  max_ply,      \* the skill level
  player,       \* the marker of *player, the player to move
  can_go,
  prev_can_go,
  chain_ptr,    \* main's chain_ptr
  pc,           \* where main() stands
  stack,        \* the active calls of best_move(), innermost last
  ret,          \* <<what the best_move() call that just returned gave>>
  mem,          \* the move records ever allocated
  local_heap,   \* head of the application heap
  seed,         \* state of rand()
  input,        \* the lines still to be typed
  comp_moves,   \* computer moves made so far
  objects       \* the count printed at line 479

vars ==
  <<board, count, ptype, max_ply, player, can_go, prev_can_go, chain_ptr, pc,
    stack, ret, mem, local_heap, seed, input, comp_moves, objects>>

Heap == [mem |-> mem, local_heap |-> local_heap]

Top == stack[Len(stack)]

Below == SubSeq(stack, 1, Len(stack) - 1)

\* Lines 336-378.  rand() without srand() runs as if srand(1) had been called.
Init ==
  /\ board = InitBoard
  /\ count = InitCount
  /\ \E g \in Setups : ptype = g.ptype /\ input = g.input
  /\ max_ply \in 1 .. MaxPly
  /\ player = "X"
  /\ can_go = TRUE
  /\ prev_can_go = TRUE
  /\ chain_ptr = NULL
  /\ pc = "turn"
  /\ stack = << >>
  /\ ret = << >>
  /\ mem = << >>
  /\ local_heap = NULL
  /\ seed = 1
  /\ comp_moves = 0
  /\ objects = 0

(***************************************************************************)
(* Steps of best_move().                                                   *)
(***************************************************************************)
Scanning == stack # << >> /\ Top.at = "scan" /\ pc \notin {"abort"}

ScanTop == ScanFrom(board, count, Top.player, Top.i, Top.j)

\* Deeper without the test of the ply.
Deeper_NoPlyTest(f, cnt) ==
  cnt[f.player] + cnt[Opp(f.player)] < BOARD_AREA

\* Lines 253-254: whether the trial move is searched one ply deeper.
Deeper(f, cnt) ==
  f.ply < f.max_ply /\ cnt[f.player] + cnt[Opp(f.player)] < BOARD_AREA

\* The frame of a trial move found by the scan s, before it is scored.
TrialFrame(f, s) ==
  [f EXCEPT !.i = s.i, !.j = s.j, !.effect = s.effect,
            !.changes = s.changes, !.num_changes = s.num_changes]

\* The record dequeue() returned at line 285 for the trial move the frame f
\* has just considered, if the move was collected.
Dequeued(f) ==
  IF f.effect = f.max_effect THEN {f.best_moves[Len(f.best_moves)]} ELSE {}

\* A trial move is made and best_move() calls itself for the opponent
\* (lines 244-257).
TrialCall ==
  /\ Scanning /\ ~Top.done
  /\ \E s \in {ScanTop} :
       /\ s.found
       /\ Deeper(Top, s.count)
       /\ board' = s.board
       /\ count' = s.count
       /\ stack' = Append(Append(Below, [TrialFrame(Top, s) EXCEPT
                                           !.at = "called"]),
                     NewFrame(Opp(Top.player), Top.ply + 1, Top.max_ply,
                              s.effect, Top.max_effect, s.board, s.count))
  /\ UNCHANGED <<ptype, max_ply, player, can_go, prev_can_go, chain_ptr, pc,
                 ret, mem, local_heap, seed, input, comp_moves, objects>>

\* A trial move at the depth limit or on a full board: made, scored,
\* collected or discarded, and undone (lines 244-305 without the call).
TrialLeaf ==
  /\ Scanning /\ ~Top.done
  /\ \E s \in {ScanTop} :
       /\ s.found
       /\ ~Deeper(Top, s.count)
       /\ \E n \in {Consider(TrialFrame(Top, s), s.effect, Top.chain_ptr,
                             Heap, s.board, s.count)} :
            /\ board' = n.board
            /\ count' = n.count
            /\ stack' = Append(Below,
                          [n.frame EXCEPT !.got = @ \cup Dequeued(n.frame)])
            /\ mem' = n.heap.mem
            /\ local_heap' = n.heap.local_heap
  /\ UNCHANGED <<ptype, max_ply, player, can_go, prev_can_go, chain_ptr, pc,
                 ret, seed, input, comp_moves, objects>>

\* The recursive call has returned (lines 256-305): the reply's value is
\* subtracted, the assertion of line 260 checked, the move collected or
\* discarded, and undone.
Resume ==
  /\ stack # << >> /\ Top.at = "called" /\ ret # << >> /\ pc # "abort"
  /\ \E effect \in {Top.effect - ret[1].val} :
       IF effect > INIT_MAX_EFFECT
         THEN \E n \in {Consider(Top, effect, ret[1].chain, Heap, board,
                                 count)} :
                /\ board' = n.board
                /\ count' = n.count
                /\ stack' = Append(Below,
                              [n.frame EXCEPT
                                 !.pruned = @ \/ ret[1].cut \/ ret[1].pruned,
                                 !.got = @ \cup ret[1].got
                                           \cup Dequeued(n.frame)])
                /\ mem' = n.heap.mem
                /\ local_heap' = n.heap.local_heap
                /\ pc' = pc
         ELSE /\ pc' = "abort"
              /\ UNCHANGED <<board, count, stack, mem, local_heap>>
  /\ ret' = << >>
  /\ UNCHANGED <<ptype, max_ply, player, can_go, prev_can_go, chain_ptr,
                 seed, input, comp_moves, objects>>

\* The scan that ends the loops: nothing is scanned after a cutoff.
LastScan ==
  IF Top.done
    THEN [found |-> FALSE, ok |-> TRUE, board |-> board, count |-> count]
    ELSE ScanTop

\* The loops of lines 237-306 have ended, by a cutoff or at the end of the
\* board; best_move() picks its result and returns (lines 308-332); cands
\* remembers the cells of best_moves[] as the scan left them.  If an
\* assertion of compute_effect() (lines 192, 202) fails during the scan the
\* program aborts instead.
Finish ==
  /\ Scanning
  /\ \E s \in {LastScan} :
       /\ ~s.found
       /\ IF s.ok
            THEN \E r \in {Conclude(Top, Heap, seed)} :
                   /\ board' = s.board
                   /\ count' = s.count
                   /\ ret' = << [val |-> r.val, chain |-> r.chain,
                                 player |-> Top.player, ply |-> Top.ply,
                                 max_ply |-> Top.max_ply, cut |-> Top.done,
                                 entry |-> Top.entry,
                                 pruned |-> Top.pruned, got |-> Top.got,
                                 cands |-> [k \in 1 .. Len(Top.best_moves)
                                              |-> <<mem[Top.best_moves[k]].r,
                                                    mem[Top.best_moves[k]].c>>]
                               ] >>
                   /\ mem' = r.heap.mem
                   /\ local_heap' = r.heap.local_heap
                   /\ seed' = r.seed
                   /\ stack' = Below
                   /\ pc' = pc
            ELSE /\ pc' = "abort"
                 /\ UNCHANGED <<board, count, ret, mem, local_heap, seed,
                                stack>>
  /\ UNCHANGED <<ptype, max_ply, player, can_go, prev_can_go, chain_ptr,
                 input, comp_moves, objects>>

(***************************************************************************)
(* Steps of main().  pc is "turn" at the top of the do-loop (line 381),    *)
(* "viab", "help" or "comp" while the best_move() call of line 383, 409 or *)
(* 439 is active, "prompt" at gets() (line 401), "exit" once the loop is   *)
(* left, "halt" after the heap is freed and "abort" after a failed         *)
(* assertion or a NULL chain dereferenced.                                 *)
(***************************************************************************)
Returned(at) == pc = at /\ stack = << >> /\ ret # << >>

\* Lines 467-469: the turn goes to the opponent; the loop goes on while both
\* players have markers and the board is not full.
LoopTest(cnt) ==
  IF cnt["X"] > 0 /\ cnt["O"] > 0 /\ cnt["X"] + cnt["O"] < BOARD_AREA
    THEN "turn" ELSE "exit"

\* Lines 381-384: the viability check is started.
StartTurn ==
  /\ pc = "turn"
  /\ prev_can_go' = can_go
  /\ stack' = <<NewFrame(player, 1, 1, 0, 0, board, count)>>
  /\ pc' = "viab"
  /\ UNCHANGED <<board, count, ptype, max_ply, player, can_go, chain_ptr, ret,
                 mem, local_heap, seed, input, comp_moves, objects>>

\* CannotMove with the loop never left for want of a move.
CannotMove_NeverEnds ==
  /\ Returned("viab")
  /\ ~(ret[1].val > 0)
  /\ can_go' = FALSE
  /\ chain_ptr' = ret[1].chain
  /\ ret' = << >>
  /\ pc' = LoopTest(count)
  /\ player' = Opp(player)
  /\ UNCHANGED <<board, count, ptype, max_ply, prev_can_go, stack, mem,
                 local_heap, seed, input, comp_moves, objects>>

\* CannotMove with the turn left with the player who cannot move.
CannotMove_KeepsTurn ==
  /\ Returned("viab")
  /\ ~(ret[1].val > 0)
  /\ can_go' = FALSE
  /\ chain_ptr' = ret[1].chain
  /\ ret' = << >>
  /\ IF ~prev_can_go
       THEN pc' = "exit" /\ player' = player
       ELSE pc' = LoopTest(count) /\ player' = player
  /\ UNCHANGED <<board, count, ptype, max_ply, prev_can_go, stack, mem,
                 local_heap, seed, input, comp_moves, objects>>

\* Lines 383-392 and 456-469: the player cannot move.  After a turn in which
\* the other player could not move either the loop is left; otherwise the
\* turn passes.
CannotMove ==
  /\ Returned("viab")
  /\ ~(ret[1].val > 0)
  /\ can_go' = FALSE
  /\ chain_ptr' = ret[1].chain
  /\ ret' = << >>
  /\ IF ~prev_can_go
       THEN pc' = "exit" /\ player' = player
       ELSE pc' = LoopTest(count) /\ player' = Opp(player)
  /\ UNCHANGED <<board, count, ptype, max_ply, prev_can_go, stack, mem,
                 local_heap, seed, input, comp_moves, objects>>

\* ToPrompt whatever the viability check has returned.
ToPrompt_Unchecked ==
  /\ Returned("viab")
  /\ ptype[player] = "PT_HUMAN"
  /\ can_go' = TRUE
  /\ chain_ptr' = ret[1].chain
  /\ ret' = << >>
  /\ pc' = "prompt"
  /\ UNCHANGED <<board, count, ptype, max_ply, player, prev_can_go, stack,
                 mem, local_heap, seed, input, comp_moves, objects>>

\* Lines 383-398: a human who can move is prompted.
ToPrompt ==
  /\ Returned("viab")
  /\ ret[1].val > 0
  /\ ptype[player] = "PT_HUMAN"
  /\ can_go' = TRUE
  /\ chain_ptr' = ret[1].chain
  /\ ret' = << >>
  /\ pc' = "prompt"
  /\ UNCHANGED <<board, count, ptype, max_ply, player, prev_can_go, stack,
                 mem, local_heap, seed, input, comp_moves, objects>>

\* Lines 383-439: the computer can move; srand( time( NULL ) ) and the search
\* to max_ply is started.
ComputerSearch ==
  /\ Returned("viab")
  /\ ret[1].val > 0
  /\ ptype[player] = "PT_COMP"
  /\ comp_moves < MaxCompMoves
  /\ can_go' = TRUE
  /\ chain_ptr' = ret[1].chain
  /\ ret' = << >>
  /\ seed' \in 0 .. (NumSeeds - 1)
  /\ stack' = <<NewFrame(player, 1, max_ply, 0, 0, board, count)>>
  /\ pc' = "comp"
  /\ UNCHANGED <<board, count, ptype, max_ply, player, prev_can_go, mem,
                 local_heap, input, comp_moves, objects>>

\* Lines 439-469: the computer plays the first move of the chain and the
\* chain goes back to the heap.
ComputerMove ==
  /\ Returned("comp")
  /\ chain_ptr' = ret[1].chain
  /\ ret' = << >>
  /\ IF ret[1].chain = NULL
       THEN /\ pc' = "abort"
            /\ UNCHANGED <<board, count, mem, local_heap, player, comp_moves>>
       ELSE \E ce \in {compute_effect(board, count, mem[ret[1].chain].r,
                                      mem[ret[1].chain].c, player)},
               h \in {enqueue(Heap, ret[1].chain)} :
              /\ board' = ce.board
              /\ count' = ce.count
              /\ mem' = h.mem
              /\ local_heap' = h.local_heap
              /\ comp_moves' = comp_moves + 1
              /\ IF ce.ok
                   THEN pc' = LoopTest(ce.count) /\ player' = Opp(player)
                   ELSE pc' = "abort" /\ player' = player
  /\ UNCHANGED <<ptype, max_ply, can_go, prev_can_go, stack, seed, input,
                 objects>>

\* Lines 404-406 and 434: Q leaves the loop.
HumanQuit ==
  /\ pc = "prompt"
  /\ pc' = "exit"
  /\ UNCHANGED <<board, count, ptype, max_ply, player, can_go, prev_can_go,
                 chain_ptr, stack, ret, mem, local_heap, seed, input,
                 comp_moves, objects>>

\* Lines 407-409: H starts a search to max_ply for the human's own move.
HumanHelp ==
  /\ pc = "prompt"
  /\ input # << >> /\ Head(input).cmd = "help"
  /\ input' = Tail(input)
  /\ stack' = <<NewFrame(player, 1, max_ply, 0, 0, board, count)>>
  /\ pc' = "help"
  /\ UNCHANGED <<board, count, ptype, max_ply, player, can_go, prev_can_go,
                 chain_ptr, ret, mem, local_heap, seed, comp_moves, objects>>

\* Suggest with the suggested move made on the board.
Suggest_PlaysMove ==
  /\ Returned("help")
  /\ chain_ptr' = ret[1].chain
  /\ ret' = << >>
  /\ IF ret[1].chain = NULL
       THEN pc' = "abort" /\ UNCHANGED <<board, count, mem, local_heap>>
       ELSE \E ce \in {compute_effect(board, count, mem[ret[1].chain].r,
                                      mem[ret[1].chain].c, player)},
               h \in {enqueue(Heap, ret[1].chain)} :
              /\ board' = ce.board
              /\ count' = ce.count
              /\ mem' = h.mem
              /\ local_heap' = h.local_heap
              /\ pc' = "prompt"
  /\ UNCHANGED <<ptype, max_ply, player, can_go, prev_can_go, stack, seed,
                 input, comp_moves, objects>>

\* Lines 409-413: the suggestion is printed and its chain goes back to the
\* heap.
Suggest ==
  /\ Returned("help")
  /\ chain_ptr' = ret[1].chain
  /\ ret' = << >>
  /\ IF ret[1].chain = NULL
       THEN pc' = "abort" /\ UNCHANGED <<mem, local_heap>>
       ELSE \E h \in {enqueue(Heap, ret[1].chain)} :
              /\ mem' = h.mem
              /\ local_heap' = h.local_heap
              /\ pc' = "prompt"
  /\ UNCHANGED <<board, count, ptype, max_ply, player, can_go, prev_can_go,
                 stack, seed, input, comp_moves, objects>>

\* Lines 416-431 and 456-469: a line "row,col".  Coordinates off the board,
\* an occupied cell and a move of effect 0 are refused and the prompt comes
\* again; any other move stands and the turn ends.
HumanEntry ==
  /\ pc = "prompt"
  /\ input # << >> /\ Head(input).cmd = "move"
  /\ input' = Tail(input)
  /\ \E row \in {Head(input).row}, col \in {Head(input).col} :
       IF row >= BOARD_SIZE \/ col >= BOARD_SIZE
         THEN UNCHANGED <<board, count, player, pc>>
       ELSE IF board[row][col] # " "
         THEN UNCHANGED <<board, count, player, pc>>
       ELSE \E ce \in {compute_effect(board, count, row, col, player)} :
              /\ board' = ce.board
              /\ count' = ce.count
              /\ IF ~ce.ok
                   THEN pc' = "abort" /\ player' = player
                 ELSE IF ce.heur_total = 0
                   THEN pc' = pc /\ player' = player
                 ELSE pc' = LoopTest(ce.count) /\ player' = Opp(player)
  /\ UNCHANGED <<ptype, max_ply, can_go, prev_can_go, chain_ptr, stack, ret,
                 mem, local_heap, seed, comp_moves, objects>>

\* Lines 473-477: the number of records on the application heap, following
\* next from p for at most n records.
RECURSIVE HeapLength(_, _, _)
HeapLength(m, p, n) ==
  IF p = NULL \/ n = 0 THEN 0 ELSE 1 + HeapLength(m, m[p].next, n - 1)

\* Lines 471-480: the application heap is freed and counted.
FreeHeap ==
  /\ pc = "exit"
  /\ objects' = HeapLength(mem, local_heap, Len(mem))
  /\ local_heap' = NULL
  /\ pc' = "halt"
  /\ UNCHANGED <<board, count, ptype, max_ply, player, can_go, prev_can_go,
                 chain_ptr, stack, ret, mem, seed, input, comp_moves>>

Next ==
  \/ StartTurn
  \/ TrialCall
  \/ TrialLeaf
  \/ Resume
  \/ Finish
  \/ CannotMove
  \/ ToPrompt
  \/ ComputerSearch
  \/ ComputerMove
  \/ HumanQuit
  \/ HumanHelp
  \/ Suggest
  \/ HumanEntry
  \/ FreeHeap

Spec == Init /\ [][Next]_vars

\* The states in which main() or best_move() has a next step: everywhere
\* but after the heap is freed, after an abort, and where the computer would
\* make a move past MaxCompMoves.
Running ==
  \/ pc \in {"turn", "prompt", "exit"}
  \/ stack # << >> /\ pc # "abort"
  \/ /\ Returned("viab")
     /\ \/ ~(ret[1].val > 0)
        \/ ptype[player] = "PT_HUMAN"
        \/ comp_moves < MaxCompMoves
  \/ Returned("help")
  \/ Returned("comp")

\* RunsOnlyWhenRunning and Running together say that Running is
\* ENABLED <<Next>>_vars: no step leaves a state that is not Running, and
\* a Running state has a step (the search without deadlock detection
\* switched off finds none that has not).
RunsOnlyWhenRunning == [][Running]_vars

\* The program is sequential and runs on: as long as a step is possible one
\* is taken (at a prompt the step may be any line the human can type).
\* This is WF_vars(Next) written out by its definition,
\*   <>[] ~ENABLED <<Next>>_vars \/ []<> <<Next>>_vars,
\* with Running for ENABLED <<Next>>_vars.
SpecLive == Spec /\ (<>[]~Running \/ []<><<Next>>_vars)

(***************************************************************************)
(* compute_effect() and the undo step on their own: from every position of *)
(* the four games, compute_effect() is called for either player on any     *)
(* empty cell (pc = "probe"), the undo step of best_move() follows         *)
(* (pc = "undone") and the position is taken up again.  stack holds the    *)
(* one frame of the call: its player, cell, changes, num_changes, effect   *)
(* and the board and counts before the call.                               *)
(***************************************************************************)
InitEffect ==
  /\ board = InitBoard
  /\ count = InitCount
  /\ ptype = AllHuman
  /\ max_ply = 1
  /\ player = "X"
  /\ can_go = TRUE
  /\ prev_can_go = TRUE
  /\ chain_ptr = NULL
  /\ pc = "turn"
  /\ stack = << >>
  /\ ret = << >>
  /\ mem = << >>
  /\ local_heap = NULL
  /\ seed = 1
  /\ input \in Games
  /\ comp_moves = 0
  /\ objects = 0

\* compute_effect( row, col, player, changes, &num_changes ), as called at
\* line 244.
EffectProbe ==
  /\ pc = "turn"
  /\ \E m \in Markers, row \in Idx, col \in Idx :
       /\ board[row][col] = " "
       /\ \E ce \in {compute_effect(board, count, row, col, m)} :
            /\ board' = ce.board
            /\ count' = ce.count
            /\ stack' = << [NewFrame(m, 1, 1, 0, 0, board, count) EXCEPT
                              !.i = row, !.j = col,
                              !.effect = ce.heur_total,
                              !.changes = ce.changes,
                              !.num_changes = ce.num_changed,
                              !.at = IF ce.ok THEN "probe" ELSE "failed"] >>
  /\ pc' = "probe"
  /\ UNCHANGED <<ptype, max_ply, player, can_go, prev_can_go, chain_ptr, ret,
                 mem, local_heap, seed, input, comp_moves, objects>>

\* Lines 246 and 296-304: nothing is undone when nothing was changed.
EffectUndo ==
  /\ pc = "probe"
  /\ \E u \in {IF Top.num_changes = 0
                 THEN [board |-> board, count |-> count]
                 ELSE UndoMove(board, count, Top.i, Top.j, Top.player,
                               Top.changes, Top.num_changes)} :
       /\ board' = u.board
       /\ count' = u.count
  /\ pc' = "undone"
  /\ UNCHANGED <<ptype, max_ply, player, can_go, prev_can_go, chain_ptr,
                 stack, ret, mem, local_heap, seed, input, comp_moves,
                 objects>>

EffectReset ==
  /\ pc = "undone"
  /\ pc' = "turn"
  /\ stack' = << >>
  /\ UNCHANGED <<board, count, ptype, max_ply, player, can_go, prev_can_go,
                 chain_ptr, ret, mem, local_heap, seed, input, comp_moves,
                 objects>>

\* The next move of the game is made as at lines 426 and 467; where it
\* changes nothing the player to move has no move in this game and the turn
\* passes.
EffectPlay ==
  /\ pc = "turn"
  /\ input # << >>
  /\ \E ce \in {compute_effect(board, count, Head(input).row,
                               Head(input).col, player)} :
       /\ board' = ce.board
       /\ count' = ce.count
       /\ input' = IF ce.heur_total = 0 THEN input ELSE Tail(input)
  /\ player' = Opp(player)
  /\ UNCHANGED <<ptype, max_ply, can_go, prev_can_go, chain_ptr, pc, stack,
                 ret, mem, local_heap, seed, comp_moves, objects>>

NextEffect == EffectProbe \/ EffectUndo \/ EffectReset \/ EffectPlay

SpecEffect == InitEffect /\ [][NextEffect]_vars

(***************************************************************************)
(* The rules of the game, stated on their own for the claims below.        *)
(***************************************************************************)
Cells == Idx \X Idx

OnBoard(r, c) == r \in Idx /\ c \in Idx

Directions == {d \in {-1, 0, 1} \X {-1, 0, 1} : d # <<0, 0>>}

\* The lengths n of a run of n opponent cells that starts next to (r, c) in
\* direction d and is followed by a cell of the mover p.
Runs(b, r, c, d, p) ==
  {n \in 1 .. BOARD_SIZE :
     /\ \A k \in 1 .. n :
          /\ OnBoard(r + k * d[1], c + k * d[2])
          /\ b[r + k * d[1]][c + k * d[2]] = Opp(p)
     /\ OnBoard(r + (n + 1) * d[1], c + (n + 1) * d[2])
     /\ b[r + (n + 1) * d[1]][c + (n + 1) * d[2]] = p}

\* The cells a move of p at (r, c) captures.
FlipSet(b, r, c, p) ==
  UNION {UNION {{<<r + k * d[1], c + k * d[2]>> : k \in 1 .. n} :
                  n \in Runs(b, r, c, d, p)} : d \in Directions}

\* An opponent cell next to (r, c) in a direction that captures nothing.
DeadEnd(b, r, c, p) ==
  \E d \in Directions :
    /\ OnBoard(r + d[1], c + d[2])
    /\ b[r + d[1]][c + d[2]] = Opp(p)
    /\ Runs(b, r, c, d, p) = {}

HasLegalMove(b, p) ==
  \E x \in Cells : b[x[1]][x[2]] = " " /\ FlipSet(b, x[1], x[2], p) # {}

Changed(b1, b2) == {x \in Cells : b1[x[1]][x[2]] # b2[x[1]][x[2]]}

Owned(b, m) == {x \in Cells : b[x[1]][x[2]] = m}

Weight(r, c) ==
  IF r \in {0, 7} /\ c \in {0, 7} THEN 64
  ELSE IF r \in {0, 7} \/ c \in {0, 7} THEN 8
  ELSE 1

RECURSIVE SumWeights(_)
SumWeights(S) ==
  IF S = {} THEN 0
  ELSE LET x == CHOOSE y \in S : TRUE
       IN Weight(x[1], x[2]) + SumWeights(S \ {x})

\* The frame of the compute_effect() call under SpecEffect.
Probed == pc = "probe" /\ Top.at = "probe"

(***************************************************************************)
(* Claims.                                                                 *)
(***************************************************************************)

\* C1: apply/undo inverse.  Whenever compute_effect() has applied a move with
\* at least one flip, the undo step of best_move() gives back exactly the
\* board and the two counts from before the call.
C1_ApplyUndoInverse ==
  (pc = "undone" /\ Top.num_changes >= 1)
    => (board = Top.entry.board /\ count = Top.entry.count)

\* A move that flips in at least two directions has been applied and undone.
C1_Witness ==
  /\ pc = "undone"
  /\ Top.num_changes >= 3
  /\ Cardinality({d \in Directions :
                    Runs(Top.entry.board, Top.i, Top.j, d, Top.player) # {}})
       >= 2

\* C4: flip rule.  The cells compute_effect() changes are exactly the runs
\* of opponent cells, over the 8 directions, that start next to the cell
\* and end at a cell of the mover, together with the cell itself when there
\* is such a run; all of them become the mover's; no other cell changes.
C4_FlipRule ==
  Probed =>
    LET fs == FlipSet(Top.entry.board, Top.i, Top.j, Top.player)
        ch == Changed(Top.entry.board, board)
    IN /\ ch = fs \cup (IF fs # {} THEN {<<Top.i, Top.j>>} ELSE {})
       /\ \A x \in ch : board[x[1]][x[2]] = Top.player

\* A move that captures in two directions next to an opponent run that ends
\* at the edge or at an empty cell.
C4_Witness ==
  /\ Probed
  /\ Cardinality({d \in Directions :
                    Runs(Top.entry.board, Top.i, Top.j, d, Top.player) # {}})
       >= 2
  /\ DeadEnd(Top.entry.board, Top.i, Top.j, Top.player)

\* C5: move score.  For a legal move compute_effect() returns the weight of
\* the placed cell plus the weights of the flipped cells: 64 for a corner,
\* 8 for any other edge cell, 1 otherwise.
C5_MoveScore ==
  (Probed /\ Top.num_changes >= 1) =>
    Top.effect = Weight(Top.i, Top.j)
                   + SumWeights(Changed(Top.entry.board, board)
                                  \ {<<Top.i, Top.j>>})

\* A corner is taken and an edge cell next to it is flipped.
C5_Witness ==
  /\ Probed
  /\ Weight(Top.i, Top.j) = 64
  /\ \E x \in Changed(Top.entry.board, board) : Weight(x[1], x[2]) = 8

\* C7 as stated: after an applied move the two counts add up to the sum
\* before the move plus flips + 1.
C7_SumGrowsByFlipsPlusOne ==
  (Probed /\ Top.num_changes >= 1) =>
    count["X"] + count["O"]
      = Top.entry.count["X"] + Top.entry.count["O"] + Top.num_changes + 1

\* C7 amended: after an applied move the mover's count has grown by
\* flips + 1 and the opponent's has shrunk by flips, so the two counts add
\* up to the sum before the move plus exactly 1.
C7_SumGrowsByOne ==
  (Probed /\ Top.num_changes >= 1) =>
    /\ count[Top.player] = Top.entry.count[Top.player] + Top.num_changes + 1
    /\ count[Opp(Top.player)]
         = Top.entry.count[Opp(Top.player)] - Top.num_changes
    /\ count["X"] + count["O"]
         = Top.entry.count["X"] + Top.entry.count["O"] + 1

\* A move with several flips has been applied.
C7_Witness == Probed /\ Top.num_changes >= 4

\* C8: no-effect detection.  On an empty cell from which no direction holds
\* an opponent run that ends at a mover cell, compute_effect() returns 0,
\* reports 0 flips and leaves the board and both counts as they were; a move
\* that flips a cell returns at least 2; so the value returned is 0 exactly
\* for the moves that are not legal.
C8_NoEffect ==
  Probed =>
    LET legal == FlipSet(Top.entry.board, Top.i, Top.j, Top.player) # {}
    IN /\ ~legal => /\ Top.effect = 0
                    /\ Top.num_changes = 0
                    /\ board = Top.entry.board
                    /\ count = Top.entry.count
       /\ legal => Top.effect >= 2 /\ Top.num_changes >= 1
       /\ (Top.effect = 0) <=> ~legal

\* A cell next to an opponent cell from which nothing is captured.
C8_Witness ==
  /\ Probed
  /\ Top.effect = 0
  /\ DeadEnd(Top.entry.board, Top.i, Top.j, Top.player)

\* C6: counts match the board.  In every state between two steps of the
\* program each player's count is the number of cells that hold its marker.
C6_CountsMatchBoard ==
  \A m \in Markers : count[m] = Cardinality(Owned(board, m))

\* Two trial moves deep in the computer's search.
C6_Witness ==
  /\ pc = "comp"
  /\ Len(stack) = 2
  /\ Top.best_moves # << >>
  /\ count["X"] + count["O"] >= 6

\* The value of the search without any cutoff: the best, over the legal
\* moves, of the move's score less the opponent's value one ply deeper; no
\* deeper than max_ply or a full board; 0 where there is no legal move.
RECURSIVE NegaMax(_, _, _, _, _)
NegaMax(b, cnt, p, ply, maxply) ==
  LET Net(x) ==
        LET ce == compute_effect(b, cnt, x[1], x[2], p)
        IN IF ply < maxply /\ ce.count["X"] + ce.count["O"] < BOARD_AREA
             THEN ce.heur_total
                    - NegaMax(ce.board, ce.count, Opp(p), ply + 1, maxply)
             ELSE ce.heur_total
      nets == {Net(x) : x \in {y \in Cells :
                                 /\ b[y[1]][y[2]] = " "
                                 /\ FlipSet(b, y[1], y[2], p) # {}}}
  IN IF nets = {} THEN 0
     ELSE CHOOSE v \in nets : \A u \in nets : u <= v

\* C2: the search leaves the game state untouched.  When a call of
\* best_move() returns, at any depth, after a full scan, a cutoff or with no
\* legal move, the board and both counts are what they were at its entry.
C2_SearchRestoresState ==
  ret # << >> =>
    (board = ret[1].entry.board /\ count = ret[1].entry.count)

\* A call at ply 2 returns after a cutoff.
C2_Witness ==
  /\ ret # << >>
  /\ ret[1].cut
  /\ ret[1].ply >= 2
  /\ ret[1].chain # NULL

\* C3: alpha-beta equivalence.  The score best_move() returns at the root
\* (ply 1) is the value of the same recursion without any cutoff.
C3_AlphaBetaEquivalence ==
  (ret # << >> /\ stack = << >>) =>
    ret[1].val = NegaMax(board, count, ret[1].player, 1, ret[1].max_ply)

\* A search to max_ply >= 2 in which a call was cut off returns at the root.
C3_Witness ==
  /\ ret # << >>
  /\ stack = << >>
  /\ ret[1].max_ply >= 2
  /\ ret[1].pruned

\* C9: no-legal-move sentinel.  best_move() stores a NULL chain and returns
\* 0 exactly when its player has no empty cell that flips an opponent cell;
\* with a legal move the chain is never NULL.
C9_NoLegalMoveSentinel ==
  ret # << >> =>
    LET none == ~HasLegalMove(board, ret[1].player)
    IN /\ (ret[1].chain = NULL /\ ret[1].val = 0) <=> none
       /\ ~none => ret[1].chain # NULL

\* Inside a search, a call for a player without a legal move returns.
C9_Witness ==
  /\ ret # << >>
  /\ ret[1].ply >= 2
  /\ ret[1].chain = NULL
  /\ count["X"] + count["O"] < BOARD_AREA

\* The parts of C10.  The viability check tells whether the player to move
\* has a legal move.
ViabilityIsLegality ==
  Returned("viab") => (ret[1].val > 0 <=> HasLegalMove(board, player))

BoardFull(b) == \A x \in Cells : b[x[1]][x[2]] # " "

\* A player without a legal move places nothing; the turn passes and the
\* loop goes on if the turn before was played, and the loop is left if not.
PassOrDeadlock ==
  (Returned("viab") /\ ~HasLegalMove(board, player)) =>
    /\ board' = board
    /\ count' = count
    /\ IF prev_can_go
         THEN pc' = "turn" /\ player' = Opp(player)
         ELSE pc' = "exit"

\* The step that ends an iteration of the loop: the loop is left when the
\* board is full or a player has no marker left, and otherwise only after
\* two turns without a move or a Q; when it goes on the other player is to
\* move.
IterationEnd ==
  (pc \in {"viab", "prompt", "comp"} /\ pc' \in {"turn", "exit"}) =>
    /\ pc' = "turn" => player' = Opp(player)
    /\ (BoardFull(board') \/ \E m \in Markers : Owned(board', m) = {})
         => pc' = "exit"
    /\ pc' = "exit" =>
         \/ BoardFull(board')
         \/ \E m \in Markers : Owned(board', m) = {}
         \/ pc = "viab" /\ ~can_go' /\ ~prev_can_go
         \/ pc = "prompt" /\ board' = board

\* C10: pass and deadlock rule of the turn loop.  The viability check is
\* positive exactly when the player to move has a legal move; a player
\* without one passes, nothing is placed and the game goes on, unless the
\* turn before was not played either; the loop ends after two such turns,
\* on a full board or when a count reaches 0; the player to move changes on
\* every iteration, passes included.
C10_PassAndDeadlock ==
  /\ []ViabilityIsLegality
  /\ [][PassOrDeadlock /\ IterationEnd]_vars

\* A turn has been passed and the game goes on with the other player.
C10_Witness ==
  /\ pc = "turn"
  /\ ~can_go
  /\ HasLegalMove(board, player)


\* The legal moves of p on the board b.
LegalMoves(b, p) ==
  {x \in Cells : b[x[1]][x[2]] = " " /\ FlipSet(b, x[1], x[2], p) # {}}

\* The net score of the move x at a node of the search: the score of the
\* move less the value, without any cutoff, of the opponent's node below it.
NetScore(b, cnt, p, ply, maxply, x) ==
  LET ce == compute_effect(b, cnt, x[1], x[2], p)
  IN IF ply < maxply /\ ce.count["X"] + ce.count["O"] < BOARD_AREA
       THEN ce.heur_total
              - NegaMax(ce.board, ce.count, Opp(p), ply + 1, maxply)
       ELSE ce.heur_total

\* C11: candidate collection and result selection.  When a call of
\* best_move() returns without a cutoff, the cells held in best_moves[] at
\* the end of the scan are, each once, exactly the legal moves whose net
\* score is the greatest net score of the node, and the move returned is
\* one of them.
C11_CandidateCollection ==
  (ret # << >> /\ ~ret[1].cut) =>
    \A net \in {{<<x, NetScore(board, count, ret[1].player, ret[1].ply,
                             ret[1].max_ply, x)>> :
                   x \in LegalMoves(board, ret[1].player)}} :
      LET best == {s[1] : s \in {t \in net : \A u \in net : u[2] <= t[2]}}
          cands == {ret[1].cands[k] : k \in DOMAIN ret[1].cands}
      IN /\ cands = best
         /\ Cardinality(cands) = Len(ret[1].cands)
         /\ ret[1].chain # NULL =>
              <<mem[ret[1].chain].r, mem[ret[1].chain].c>> \in cands

\* A search to max_ply >= 2 with a cutoff below the root ends with several
\* candidates, and the move chosen is not the first of them.
C11_Witness ==
  /\ ret # << >>
  /\ stack = << >>
  /\ ret[1].max_ply >= 2
  /\ ret[1].pruned
  /\ Len(ret[1].cands) >= 2
  /\ <<mem[ret[1].chain].r, mem[ret[1].chain].c>> # ret[1].cands[1]


\* The records of the chain that starts at p, following next, n at most.
RECURSIVE Chain(_, _, _)
Chain(m, p, n) ==
  IF p = NULL \/ n = 0 THEN << >>
  ELSE <<p>> \o Chain(m, m[p].next, n - 1)

\* The position after the moves of the records ps are made in turn from the
\* board b, p moving first, and whether each of them was made on an empty
\* cell and captured something.
RECURSIVE Replay(_, _, _, _, _)
Replay(m, ps, b, cnt, p) ==
  IF ps = << >> THEN [legal |-> TRUE, board |-> b, count |-> cnt, next |-> p]
  ELSE LET r == m[Head(ps)].r
           c == m[Head(ps)].c
       IN IF ~OnBoard(r, c) \/ b[r][c] # " " \/ FlipSet(b, r, c, p) = {}
            THEN [legal |-> FALSE, board |-> b, count |-> cnt, next |-> p]
            ELSE LET ce == compute_effect(b, cnt, r, c, p)
                 IN Replay(m, Tail(ps), ce.board, ce.count, Opp(p))

\* The chain a call at ply 1 has returned is a line of play of 1 to max_ply
\* legal moves, and is shorter than max_ply only where the line cannot go on.
LegalLine ==
  LET ps == Chain(mem, ret[1].chain, ret[1].max_ply + 1)
      line == Replay(mem, ps, board, count, ret[1].player)
  IN /\ Len(ps) \in 1 .. ret[1].max_ply
     /\ line.legal
     /\ Len(ps) < ret[1].max_ply =>
          \/ BoardFull(line.board)
          \/ ~HasLegalMove(line.board, line.next)

\* C12 as stated: the chain returned by every call of best_move() at ply 1
\* has 1 to max_ply moves, each of them legal when they are replayed in
\* turn, and is shorter than max_ply only if the board is full or the
\* player next to move has no legal move after its last move.
C12_ChainIsLegalLine ==
  (ret # << >> /\ stack = << >>) => LegalLine

\* C12 amended: the same of every call at ply 1 for a player who has a legal
\* move; for a player who has none the chain is NULL and has no move.
C12_ChainIsLegalLineIfAny ==
  (ret # << >> /\ stack = << >>) =>
    IF HasLegalMove(board, ret[1].player)
      THEN LegalLine
      ELSE ret[1].chain = NULL

\* A search to max_ply = 2 returns a chain of one move after which the
\* opponent has no legal move on a board that is not full.
C12_Witness ==
  /\ ret # << >>
  /\ stack = << >>
  /\ ret[1].max_ply = 2
  /\ ret[1].chain # NULL
  /\ mem[ret[1].chain].next = NULL
  /\ ~BoardFull(board)


Occupied(b) == {x \in Cells : b[x[1]][x[2]] # " "}

\* The board of the game: the board as main() left it, which is the board
\* at the entry of the call at ply 1 while a search is going on.
GameBoard == IF stack # << >> THEN stack[1].entry.board ELSE board

\* The step in which main() makes the move of a turn: an entry of the human
\* that stands, or the computer's move.
MoveMade == pc \in {"prompt", "comp"} /\ stack = << >> /\ player' # player

\* From step to step no occupied cell of the game is given up, and the
\* number of occupied cells grows by 1 with the move of a turn and by
\* nothing in any other step, a pass included.
OccupiedStays ==
  /\ Occupied(GameBoard) \subseteq Occupied(GameBoard')
  /\ Cardinality(Occupied(GameBoard'))
       = Cardinality(Occupied(GameBoard)) + (IF MoveMade THEN 1 ELSE 0)
  /\ count'["X"] + count'["O"] <= BOARD_AREA

\* A cell of the board itself becomes empty only in the undo step of a
\* best_move() call whose recursive call has returned, and it is the cell
\* of the trial move.
EmptiedOnlyByUndo ==
  \A x \in Cells :
    (board[x[1]][x[2]] # " " /\ board'[x[1]][x[2]] = " ") =>
      /\ stack # << >>
      /\ Top.at = "called"
      /\ ret # << >>
      /\ x = <<Top.i, Top.j>>

\* C13: occupied cells are permanent in play.  From the start of a turn to
\* the start of any later turn every occupied cell stays occupied, the
\* number of occupied cells grows by exactly 1 in a turn with a move and by
\* 0 in a pass, and never exceeds 64; a cell becomes empty again only in
\* the undo step of best_move().
C13_OccupiedPermanent == [][OccupiedStays /\ EmptiedOnlyByUndo]_vars

\* A turn starts after the computer has moved twice, every search on the
\* way having placed and taken back its trial moves.
C13_Witness ==
  /\ pc = "turn"
  /\ comp_moves = MaxCompMoves
  /\ Cardinality(Occupied(board)) >= 4 + MaxCompMoves
  /\ mem # << >>


Range(q) == {q[k] : k \in DOMAIN q}

\* The records on the application heap, following next from local_heap; a
\* list that runs into itself shows as Len(mem) + 1 records.
FreeList == Chain(mem, local_heap, Len(mem) + 1)

\* C14: pool reclamation and ownership.  When a call of best_move()
\* returns, every record dequeue() handed out during the call and the calls
\* made from it is a record of the returned chain or is on the application
\* heap; the heap list ends, holds no record twice and shares no record
\* with the returned chain.
C14_PoolReclamation ==
  ret # << >> =>
    LET chain == Chain(mem, ret[1].chain, Len(mem) + 1)
    IN /\ ret[1].got \subseteq Range(chain) \cup Range(FreeList)
       /\ Len(FreeList) <= Len(mem)
       /\ Cardinality(Range(FreeList)) = Len(FreeList)
       /\ Range(FreeList) \cap Range(chain) = {}

\* A search to max_ply >= 2 with a cutoff returns at ply 1: of the records
\* it was handed some are in its chain of two moves and some on the heap.
C14_Witness ==
  /\ ret # << >>
  /\ stack = << >>
  /\ ret[1].pruned
  /\ ret[1].chain # NULL
  /\ mem[ret[1].chain].next # NULL
  /\ Cardinality(ret[1].got \cap Range(FreeList)) >= 2


Min(a, b) == IF a <= b THEN a ELSE b

\* The active calls are at ply 1, 2, ... and none is deeper than max_ply or
\* than the number of empty cells of the board the search started from.
RecursionBound ==
  \A k \in DOMAIN stack :
    /\ stack[k].ply = k
    /\ stack[k].ply
         <= Min(stack[k].max_ply,
                BOARD_AREA - Cardinality(Occupied(stack[1].entry.board)))

\* C15: recursion bound and termination of the search.  In a search
\* started at ply 1 on a board with n occupied cells no active call is at a
\* ply above min(max_ply, 64 - n), and every search that has started comes
\* to its end.
C15_RecursionBound ==
  /\ []RecursionBound
  /\ (stack # << >>) ~> (stack = << >>)

\* A search to max_ply = 2 on a board with one empty cell has tried its
\* move without a recursive call.
C15_Witness ==
  /\ stack # << >>
  /\ Top.max_ply = 2
  /\ Cardinality(Occupied(Top.entry.board)) = BOARD_AREA - 1
  /\ Top.best_moves # << >>


\* The weight of all the cells of the board: the sum of the products of the
\* index weights is the square of their sum, 8 + 6 * 1 + 8.
BoardWeight ==
  (2 * BOARD_SIZE + (BOARD_SIZE - 2)) * (2 * BOARD_SIZE + (BOARD_SIZE - 2))

\* The least net score a trial move of the frame f can have: a net score is
\* the alternating sum of the move scores along a line of legal moves, in
\* which every cell counts its weight with alternating sign, first against
\* the mover only if it starts as the mover's or is first taken by the
\* opponent.  The floor is minus the weight of the cells that do not start
\* as the opponent's.
EffectFloor(f) ==
  SumWeights(Owned(f.entry.board, Opp(f.player))) - BoardWeight

\* A frame that has scored at least one trial move: the scan has moved on
\* from cell (0, 0).
HasTried(f) == f.at = "scan" /\ <<f.i, f.j>> # <<0, 0>>

\* C16: no move is incorrectly ignored.  The assertion after the recursive
\* call (line 260) never fails; the net score of every trial move is above
\* INIT_MAX_EFFECT, being no less than a floor that depends on the board
\* alone and lies above INIT_MAX_EFFECT; and once a call has scored a trial
\* move it holds a candidate and a maximum above INIT_MAX_EFFECT.
C16_NoMoveIgnored ==
  /\ ~(pc = "abort" /\ stack # << >> /\ Top.at = "called")
  /\ \A k \in DOMAIN stack :
       /\ INIT_MAX_EFFECT < EffectFloor(stack[k])
       /\ EffectFloor(stack[k]) <= stack[k].effect
       /\ HasTried(stack[k]) =>
            /\ stack[k].best_moves # << >>
            /\ stack[k].effect <= stack[k].max_effect
            /\ INIT_MAX_EFFECT < stack[k].max_effect

\* A search to max_ply >= 2 has scored a trial move whose net score, after
\* the opponent's best reply is subtracted, is negative, and no move tried
\* before it was better.
C16_Witness ==
  /\ stack # << >>
  /\ HasTried(Top)
  /\ Top.ply < Top.max_ply
  /\ Top.effect < 0
  /\ Top.max_effect = Top.effect
  /\ Top.best_moves # << >>


\* The opponent cells the walk from (r, c) in direction d passes over, and
\* stores in line_change[], before it stops.
Walked(b, r, c, d, p) ==
  {n \in 1 .. BOARD_SIZE :
     \A k \in 1 .. n :
       /\ OnBoard(r + k * d[1], c + k * d[2])
       /\ b[r + k * d[1]][c + k * d[2]] = Opp(p)}

\* C17: flip-count bounds.  After compute_effect() on any empty cell for
\* either player neither assertion has failed, no direction captures more
\* than 6 cells, no walk stores more than BOARD_SIZE - 1 = 7 cells in
\* line_change[], and changes[] holds the num_changes <= MAX_CHANGES cells
\* that were captured.
C17_FlipBounds ==
  (pc = "probe") =>
    /\ Top.at = "probe"
    /\ Top.num_changes <= MAX_CHANGES
    /\ Len(Top.changes) = Top.num_changes
    /\ \A d \in Directions :
         /\ Cardinality(Walked(Top.entry.board, Top.i, Top.j, d, Top.player))
              <= BOARD_SIZE - 1
         /\ \A n \in Runs(Top.entry.board, Top.i, Top.j, d, Top.player) :
              n <= BOARD_SIZE - 2

\* compute_effect() has captured six cells in one direction and eighteen
\* cells in all, two short of MAX_CHANGES.
C17_Witness ==
  /\ Probed
  /\ Top.num_changes >= MAX_CHANGES - 2
  /\ \E d \in Directions :
       BOARD_SIZE - 2 \in Runs(Top.entry.board, Top.i, Top.j, d, Top.player)


\* The first move of the chain best_move() has returned.
FirstMove == <<mem[ret[1].chain].r, mem[ret[1].chain].c>>

\* While a search to max_ply is active for a computer move or a help
\* request the viability check of the turn has succeeded, and what the
\* search returns is a chain whose first move is legal for the player to
\* move; the program never stops on a missing chain or on a move of the
\* game loop that fails an assertion.
ChainReady ==
  /\ pc \in {"help", "comp"} =>
       can_go /\ HasLegalMove(GameBoard, player)
  /\ (Returned("help") \/ Returned("comp")) =>
       /\ ret[1].chain # NULL
       /\ FirstMove \in LegalMoves(board, player)
  /\ ~(pc = "abort" /\ stack = << >>)

\* The step of the game loop after the search for a computer move: the
\* first move of the chain gets the mover's marker and is the one cell that
\* becomes occupied.
OneDiscPlaced ==
  Returned("comp") =>
    /\ pc' # "abort"
    /\ Occupied(board') = Occupied(board) \cup {FirstMove}
    /\ FirstMove \notin Occupied(board)
    /\ board'[FirstMove[1]][FirstMove[2]] = player

\* C18: the computer always plays a legal move and the game loop never uses
\* a missing chain.
C18_ComputerPlaysLegal == []ChainReady /\ [][OneDiscPlaced]_vars

\* The computer has played, on a search to max_ply >= 2, a move that
\* captures more than one cell.
C18_Witness ==
  /\ pc = "turn"
  /\ comp_moves >= 1
  /\ max_ply >= 2
  /\ ptype[Opp(player)] = "PT_COMP"
  /\ count[Opp(player)] >= 5


\* A bound on the iterations the turn loop has left: two for every empty
\* cell, less one after a turn that was passed.
TurnsLeft ==
  2 * (BOARD_AREA - Cardinality(Occupied(board))) + (IF can_go THEN 1 ELSE 0)

\* The step that ends an iteration after which the loop goes on: either one
\* disc has been placed, or the turn was passed after a turn that was
\* played; either way fewer iterations are left.
IterationAdvances ==
  (pc # "turn" /\ pc' = "turn") =>
    /\ \/ /\ Cardinality(Occupied(board')) = Cardinality(Occupied(board)) + 1
          /\ Occupied(board) \subseteq Occupied(board')
          /\ can_go'
       \/ /\ board' = board
          /\ can_go /\ ~can_go'
    /\ TurnsLeft' < TurnsLeft
    /\ TurnsLeft' > 0

\* The model follows the computer for MaxCompMoves moves of a game and no
\* further.
OutOfCompMoves ==
  /\ Returned("viab")
  /\ ret[1].val > 0
  /\ ptype[player] = "PT_COMP"
  /\ comp_moves >= MaxCompMoves

\* C19: the game always ends.  Every iteration of the turn loop after which
\* the loop goes on places one disc or is a pass that follows a turn that
\* was played, so that the iterations left, at most 2 * 60 + 1 at the
\* start, go down every time; and every game the model follows to its end
\* leaves the loop.
C19_GameEnds ==
  /\ [][IterationAdvances]_vars
  /\ <>(pc = "exit" \/ OutOfCompMoves)

\* The loop has been left after two turns in a row without a move, on a
\* board with empty cells and markers of both players.
C19_Witness ==
  /\ pc = "exit"
  /\ ~can_go /\ ~prev_can_go
  /\ ~BoardFull(board)
  /\ \A m \in Markers : count[m] > 0


\* C20: all move records are back on the application heap at game end.
\* When the turn loop has been left every record malloc() has handed out is
\* on the local_heap list, and the count printed after the list is freed is
\* the number of records allocated.
C20_AllRecordsReclaimed ==
  /\ pc = "exit" => Range(FreeList) = DOMAIN mem
  /\ pc = "halt" => objects = Len(mem)

=============================================================================
